---- MODULE Spec2Model ----
(***************************************************************************)
(* Model of csv_to_xlsx_process.ts: an Office Script that formats the      *)
(* worksheet produced by a CSV merge.  The script's functions are modelled *)
(* as operators on a worksheet record; the ExcelScript host calls they     *)
(* make are the Host* operators.                                           *)
(*                                                                         *)
(* Strings are tuples of one-character strings, so that endsWith, the      *)
(* case-insensitive comparison of the sort and the parsing of an address   *)
(* such as "A:C" are computed and not assumed.                             *)
(***************************************************************************)
EXTENDS Integers, Sequences, FiniteSets, TLC

VARIABLES
    name,       \* workbook.getName()
    input,      \* the worksheet as supplied by the caller (never changes)
    ws,         \* the worksheet: cells, row heights, hidden rows/columns, autofilter
    pc,         \* control position
    err,        \* the error thrown, "none" when nothing was thrown
    hostLog,    \* the mutating host calls made so far, in order
    array,      \* the caller's consideredColumns array object
    before,     \* the worksheet right before the latest function call
    call        \* the latest function call: its name and the arguments passed

vars == <<name, input, ws, pc, err, hostLog, array, before, call>>

----------------------------------------------------------------------------
(* Strings *)

Upper == <<"A","B","C","D","E","F","G","H","I","J","K","L","M",
           "N","O","P","Q","R","S","T","U","V","W","X","Y","Z">>
Lower == <<"a","b","c","d","e","f","g","h","i","j","k","l","m",
           "n","o","p","q","r","s","t","u","v","w","x","y","z">>

Elems(seq) == {seq[i] : i \in 1..Len(seq)}

IndexIn(seq, ch) ==
    IF \E i \in 1..Len(seq) : seq[i] = ch
    THEN CHOOSE i \in 1..Len(seq) : seq[i] = ch
    ELSE 0

Chars == Elems(Upper) \cup Elems(Lower) \cup {".", ":"}

\* UTF-16 code unit of a character
CodeUnit(ch) ==
    IF IndexIn(Upper, ch) > 0 THEN 64 + IndexIn(Upper, ch)
    ELSE IF IndexIn(Lower, ch) > 0 THEN 96 + IndexIn(Lower, ch)
    ELSE IF ch = ":" THEN 58
    ELSE 46

\* String.prototype.toLowerCase on one character
LowerCase(ch) ==
    IF IndexIn(Upper, ch) > 0 THEN Lower[IndexIn(Upper, ch)] ELSE ch

CharCode == [ch \in Chars |-> CodeUnit(ch)]
ToLowerChar == [ch \in Chars |-> LowerCase(ch)]

ToLower(s) == [i \in 1..Len(s) |-> ToLowerChar[s[i]]]

Min(a, b) == IF a < b THEN a ELSE b

\* a sorts strictly before b, character by character
StrLess(a, b) ==
    \/ Len(a) < Len(b) /\ \A j \in 1..Len(a) : a[j] = b[j]
    \/ \E k \in 1..Min(Len(a), Len(b)) :
          /\ CharCode[a[k]] < CharCode[b[k]]
          /\ \A j \in 1..(k - 1) : a[j] = b[j]

\* the comparison of Range.getSort().apply(fields, matchCase = false, ...)
LessIgnoreCase(a, b) == StrLess(ToLower(a), ToLower(b))

\* a variant that ignores case
EndsWithIgnoringCase(s, suffix) ==
    /\ Len(s) >= Len(suffix)
    /\ ToLower(SubSeq(s, Len(s) - Len(suffix) + 1, Len(s))) = ToLower(suffix)

\* String.prototype.endsWith
EndsWith(s, suffix) ==
    /\ Len(s) >= Len(suffix)
    /\ SubSeq(s, Len(s) - Len(suffix) + 1, Len(s)) = suffix

DotXlsx == <<".", "x", "l", "s", "x">>

----------------------------------------------------------------------------
(* The fixed arguments of main *)

COLUMNS_TOBE_HIDDEN == <<"A", ":", "C">>
COLUMNS_TOBE_FILTERED == <<"D", ":", "O">>
RISK_COLUMN == 3
DUPLICATES_CONSIDERED_COLUMNS == <<3, 4, 5, 6, 7, 8, 9, 10, 11, 12, 13, 14>>
UNIFIED_ROW_HEIGHT == 14
Critical == <<"C","r","i","t","i","c","a","l">>
High == <<"H","i","g","h">>
Low == <<"L","o","w">>
Medium == <<"M","e","d","i","u","m">>
RISK_LEVELS_TOBE_SHOWN == <<Critical, High, Low, Medium>>
COLUMNS_TOBE_AUTOFITTED == <<"E", "F", "I", "J", "M">>

----------------------------------------------------------------------------
(* The worksheet *)

LastCol == 14                   \* column O, the last column of the layout
Cols == 0..LastCol              \* the columns of the worksheet as supplied
Empty == <<>>                   \* an empty cell
NoRange == <<>>                 \* AutoFilter.getRange() without an autofilter
NoCriteria == <<>>

\* "A" -> 0, "B" -> 1, ...
ColumnIndexOf(letter) == IndexIn(Upper, letter) - 1

\* Worksheet.getRange("A:C"): the first and the last column of the address
GetRange(address) == <<ColumnIndexOf(address[1]), ColumnIndexOf(address[3])>>

ColumnsOf(range) == range[1]..range[2]

\* Worksheet.getUsedRange(): the bounding rectangle of the non-empty cells.
\* The first row of the sheet is the header row and is never empty.
SheetCols(w) == DOMAIN w.cells[1]
UsedCols(w) == {c \in SheetCols(w) : \E r \in 1..Len(w.cells) : w.cells[r][c] # Empty}
UsedColumnIndex(w) == CHOOSE c \in UsedCols(w) : \A d \in UsedCols(w) : c <= d
UsedLastColumn(w) == CHOOSE c \in UsedCols(w) : \A d \in UsedCols(w) : d <= c
UsedColumnCount(w) == UsedLastColumn(w) - UsedColumnIndex(w) + 1
UsedRowIndex(w) == 0
RowCount(w) == Len(w.cells)
DataRows(w) == 2..RowCount(w)

----------------------------------------------------------------------------
(* The ExcelScript host.  Each call returns the worksheet it leaves and    *)
(* "HostError" when the host rejects its arguments (the worksheet is then  *)
(* left as it was).                                                        *)

HostOk(w) == [ws |-> w, err |-> "none"]
HostRejects(w) == [ws |-> w, err |-> "HostError"]

\* Range.setColumnHidden(true)
HostSetColumnHidden(w, range) ==
    HostOk([w EXCEPT !.colHidden = @ \cup ColumnsOf(range)])

\* AutoFilter.apply(range): binds the autofilter to the range, no criteria
HostAutoFilterApply(w, range) ==
    HostOk([w EXCEPT !.filterRange = range,
                     !.filterCrit = NoCriteria,
                     !.rowHidden = [r \in 1..RowCount(w) |-> FALSE]])

\* AutoFilter.apply(range, columnIndex, {filterOn: values, values}): rows of
\* the range below the header whose cell in the range's columnIndex-th
\* column is not one of the values are hidden
HostAutoFilterApplyValues(w, range, columnIndex, values) ==
    IF range = NoRange \/ columnIndex \notin 0..(range[2] - range[1])
    THEN HostRejects(w)
    ELSE HostOk([w EXCEPT
            !.filterRange = range,
            !.filterCrit = <<columnIndex, values>>,
            !.rowHidden = [r \in 1..RowCount(w) |->
                r > 1 /\ w.cells[r][range[1] + columnIndex] \notin Elems(values)]])

\* the order of the sort: ascending: true, match case: false
SortLess(a, b) == LessIgnoreCase(a, b)

\* data row j is placed before data row r (a stable sort on worksheet column col)
SortsBefore(w, col, j, r) ==
    \/ SortLess(w.cells[j][col], w.cells[r][col])
    \/ ~SortLess(w.cells[r][col], w.cells[j][col]) /\ j < r

\* the worksheet row a data row is moved to
SortPosition(w, col, r) ==
    2 + Cardinality({j \in DataRows(w) : SortsBefore(w, col, j, r)})

\* Range.getSort().apply([{key, ascending: true}], false, true) on the
\* autofilter range: the first row is a header, the cells of the range's
\* columns in the rows below it are reordered; cells outside the range stay
HostSortApply(w, key) ==
    IF key \notin 0..(w.filterRange[2] - w.filterRange[1])
    THEN HostRejects(w)
    ELSE LET col == w.filterRange[1] + key
             position == [r \in DataRows(w) |-> SortPosition(w, col, r)]
             source == [p \in DataRows(w) |-> CHOOSE r \in DataRows(w) : position[r] = p]
         IN  HostOk([w EXCEPT !.cells =
                [p \in 1..RowCount(w) |->
                    IF p = 1 THEN w.cells[1]
                    ELSE [c \in SheetCols(w) |->
                            IF c \in ColumnsOf(w.filterRange)
                            THEN w.cells[source[p]][c]
                            ELSE w.cells[p][c]]]])

\* the values of a row in the given columns of a range starting at column first
DuplicateKey(w, first, columns, r) ==
    [i \in 1..Len(columns) |-> w.cells[r][first + columns[i]]]

\* the header and the first occurrence of every key among the data rows
KeptRows(w, columns) ==
    LET first == UsedColumnIndex(w)
        keyOf == [r \in DataRows(w) |-> DuplicateKey(w, first, columns, r)]
    IN  {1} \cup {r \in DataRows(w) :
                    ~\E j \in DataRows(w) : j < r /\ keyOf[j] = keyOf[r]}

\* the k-th smallest element of a set of row numbers
NthRow(rows, k) ==
    CHOOSE r \in rows : Cardinality({j \in rows : j < r}) = k - 1

\* Range.removeDuplicates(columns, includesHeader = true) on the used range:
\* the cells of the removed rows are deleted and the rows below shift up;
\* heights and the hidden flag belong to worksheet rows and do not shift
HostRemoveDuplicates(w, columns) ==
    IF columns = <<>> \/ \E i \in 1..Len(columns) :
                            columns[i] \notin 0..(UsedColumnCount(w) - 1)
    THEN HostRejects(w)
    ELSE LET kept == KeptRows(w, columns)
             n == Cardinality(kept)
         IN  HostOk([w EXCEPT
                !.cells = [k \in 1..n |-> w.cells[NthRow(kept, k)]],
                !.rowHeight = SubSeq(w.rowHeight, 1, n),
                !.rowHidden = SubSeq(w.rowHidden, 1, n)])

\* RangeFormat.setRowHeight(rowHeight) on the used range
HostSetRowHeight(w, rowHeight) ==
    HostOk([w EXCEPT !.rowHeight = [r \in 1..RowCount(w) |-> rowHeight]])

\* RangeFormat.autofitColumns()
HostAutofitColumns(w, range) ==
    HostOk([w EXCEPT !.autofitted = @ \cup ColumnsOf(range)])

----------------------------------------------------------------------------
(* The functions of the script.  Each returns the worksheet it leaves, the *)
(* error it throws ("none" when it returns) and the host calls it made.    *)

HostCall(op, arg) == [op |-> op, arg |-> arg]

\* a column index after a column was inserted before column at
ShiftRight(c, at) == IF c < at THEN c ELSE c + 1

\* Range.insert(InsertShiftDirection.right) on an entire column: the cells
\* of that column and of the columns right of it move one column to the
\* right, with what is attached to them (hidden, width, autofilter)
HostInsertColumn(w, range) ==
    LET at == range[1]
        last == CHOOSE c \in SheetCols(w) : \A d \in SheetCols(w) : d <= c
        newLast == IF at > last THEN at ELSE last + 1
        old(row, c) == IF c \in DOMAIN row THEN row[c] ELSE Empty
    IN  HostOk([w EXCEPT
            !.cells = [r \in 1..RowCount(w) |->
                [c \in 0..newLast |->
                    IF c < at THEN old(w.cells[r], c)
                    ELSE IF c = at THEN Empty
                    ELSE old(w.cells[r], c - 1)]],
            !.colHidden = {ShiftRight(c, at) : c \in @},
            !.autofitted = {ShiftRight(c, at) : c \in @},
            !.filterRange = IF @ = NoRange THEN NoRange
                            ELSE IF at <= @[1] THEN <<@[1] + 1, @[2] + 1>>
                            ELSE IF at <= @[2] THEN <<@[1], @[2] + 1>>
                            ELSE @])

\* Worksheet.getCell(row, column).setValue(value), row and column 0-based
HostSetValue(w, row, column, value) ==
    HostOk([w EXCEPT !.cells[row + 1][column] = value])

hideColumns(w, columnsTobeHidden) ==
    LET range == GetRange(columnsTobeHidden)
        r == HostSetColumnHidden(w, range)
    IN  [ws |-> r.ws, err |-> r.err,
         calls |-> <<HostCall("setColumnHidden", <<range>>)>>]

filterColumns(w, columnsTobeFiltered) ==
    LET range == GetRange(columnsTobeFiltered)
        r == HostAutoFilterApply(w, range)
    IN  [ws |-> r.ws, err |-> r.err,
         calls |-> <<HostCall("autoFilter.apply", <<range>>)>>]

\* a variant that hands the host the absolute index as the key
sortAbsoluteKey(w, columnIndex) ==
    IF columnIndex < 0
    THEN [ws |-> w, err |-> "RangeError", calls |-> <<>>]
    ELSE IF w.filterRange = NoRange
    THEN [ws |-> w, err |-> "TypeError", calls |-> <<>>]
    ELSE LET r == HostSortApply(w, columnIndex)
         IN  [ws |-> r.ws, err |-> r.err,
              calls |-> <<HostCall("sort.apply", <<columnIndex>>)>>]

\* a variant whose check lets -1 through
sortAllowsMinusOne(w, columnIndex) ==
    IF columnIndex < -1
    THEN [ws |-> w, err |-> "RangeError", calls |-> <<>>]
    ELSE IF w.filterRange = NoRange
    THEN [ws |-> w, err |-> "TypeError", calls |-> <<>>]
    ELSE LET key == columnIndex - w.filterRange[1]
             r == HostSortApply(w, key)
         IN  [ws |-> r.ws, err |-> r.err,
              calls |-> <<HostCall("sort.apply", <<key>>)>>]

sort(w, columnIndex) ==
    IF columnIndex < 0
    THEN [ws |-> w, err |-> "RangeError", calls |-> <<>>]
    ELSE IF w.filterRange = NoRange
    THEN [ws |-> w, err |-> "TypeError", calls |-> <<>>]
    ELSE LET key == columnIndex - w.filterRange[1]
             r == HostSortApply(w, key)
         IN  [ws |-> r.ws, err |-> r.err,
              calls |-> <<HostCall("sort.apply", <<key>>)>>]

\* a variant that filters on the absolute index instead of column 0 of the range
onlyShowFilteredAbsolute(w, columnIndex, valuesTobeShown) ==
    LET range == w.filterRange
        r == HostAutoFilterApplyValues(w, range, columnIndex, valuesTobeShown)
    IN  [ws |-> r.ws, err |-> r.err,
         calls |-> <<HostCall("autoFilter.apply", <<range, columnIndex, valuesTobeShown>>)>>]

onlyShowFiltered(w, columnIndex, valuesTobeShown) ==
    LET range == w.filterRange
        r == HostAutoFilterApplyValues(w, range, 0, valuesTobeShown)
    IN  [ws |-> r.ws, err |-> r.err,
         calls |-> <<HostCall("autoFilter.apply", <<range, 0, valuesTobeShown>>)>>]

\* a variant that does not subtract the offset of the used range
removeDuplicatesUntranslated(w, consideredColumns) ==
    LET r == HostRemoveDuplicates(w, consideredColumns)
    IN  [ws |-> r.ws, err |-> r.err, array |-> consideredColumns,
         calls |-> <<HostCall("removeDuplicates", <<consideredColumns>>)>>]

\* a variant that translates a copy and leaves the caller's array alone
removeDuplicatesOnCopy(w, consideredColumns) ==
    LET translated == [i \in 1..Len(consideredColumns) |->
                          consideredColumns[i] - UsedColumnIndex(w)]
        r == HostRemoveDuplicates(w, translated)
    IN  [ws |-> r.ws, err |-> r.err, array |-> consideredColumns,
         calls |-> <<HostCall("removeDuplicates", <<translated>>)>>]

\* consideredColumns is overwritten in place: array is what the caller's
\* array object holds afterwards
removeDuplicates(w, consideredColumns) ==
    LET translated == [i \in 1..Len(consideredColumns) |->
                          consideredColumns[i] - UsedColumnIndex(w)]
        r == HostRemoveDuplicates(w, translated)
    IN  [ws |-> r.ws, err |-> r.err, array |-> translated,
         calls |-> <<HostCall("removeDuplicates", <<translated>>)>>]

\* a variant whose check lets 0 through
setRowHeightAllowsZero(w, rowHeight) ==
    IF rowHeight < 0
    THEN [ws |-> w, err |-> "RangeError", calls |-> <<>>]
    ELSE LET r == HostSetRowHeight(w, rowHeight)
         IN  [ws |-> r.ws, err |-> r.err,
              calls |-> <<HostCall("setRowHeight", <<rowHeight>>)>>]

setRowHeight(w, rowHeight) ==
    IF rowHeight <= 0
    THEN [ws |-> w, err |-> "RangeError", calls |-> <<>>]
    ELSE LET r == HostSetRowHeight(w, rowHeight)
         IN  [ws |-> r.ws, err |-> r.err,
              calls |-> <<HostCall("setRowHeight", <<rowHeight>>)>>]

autofitColumn(w, column) ==
    LET range == GetRange(<<column, ":", column>>)
        r == HostAutofitColumns(w, range)
    IN  [ws |-> r.ws, err |-> r.err,
         calls |-> <<HostCall("autofitColumns", <<range>>)>>]

RECURSIVE AutofitFrom(_, _, _)
AutofitFrom(o, columnsTobeAutofitted, i) ==
    IF i > Len(columnsTobeAutofitted) \/ o.err # "none"
    THEN o
    ELSE LET r == autofitColumn(o.ws, columnsTobeAutofitted[i])
         IN  AutofitFrom([ws |-> r.ws, err |-> r.err, calls |-> o.calls \o r.calls],
                         columnsTobeAutofitted, i + 1)

\* a variant whose loop skips the first column
autofitColumnsSkipsFirst(w, columnsTobeAutofitted) ==
    AutofitFrom([ws |-> w, err |-> "none", calls |-> <<>>], columnsTobeAutofitted, 2)

autofitColumns(w, columnsTobeAutofitted) ==
    AutofitFrom([ws |-> w, err |-> "none", calls |-> <<>>], columnsTobeAutofitted, 1)

\* for (let i = ...; i <= lastRow; i++) sheet.getCell(i, column).setValue(value)
RECURSIVE SetValuesFrom(_, _, _, _, _)
SetValuesFrom(o, column, value, i, lastRow) ==
    IF i > lastRow \/ o.err # "none"
    THEN o
    ELSE LET r == HostSetValue(o.ws, i, column, value)
         IN  SetValuesFrom([ws |-> r.ws, err |-> r.err,
                            calls |-> o.calls \o <<HostCall("setValue", <<i, column, value>>)>>],
                           column, value, i + 1, lastRow)

\* not called by main
insertColumn(w, insertBeforeThisColumn, newColumnName, newColumnFields) ==
    LET beforeColumnRange == GetRange(<<insertBeforeThisColumn, ":", insertBeforeThisColumn>>)
        inserted == HostInsertColumn(w, beforeColumnRange)
        newColumnRange == GetRange(<<insertBeforeThisColumn, ":", insertBeforeThisColumn>>)
        firstRow == 1
        lastRow == UsedRowIndex(inserted.ws) + RowCount(inserted.ws) - 1
        newColumnIndex == newColumnRange[1]
        header == HostSetValue(inserted.ws, 0, newColumnIndex, newColumnName)
    IN  SetValuesFrom([ws |-> header.ws, err |-> header.err,
                       calls |-> <<HostCall("insert", <<beforeColumnRange>>),
                                   HostCall("setValue", <<0, newColumnIndex, newColumnName>>)>>],
                      newColumnIndex, newColumnFields, firstRow, lastRow)

----------------------------------------------------------------------------
(* Inputs *)

MaxRows == 4        \* data rows of a worksheet given to main
MaxOpRows == 2      \* data rows of a worksheet given to a single function

Info == <<"I","n","f","o">>
Debug == <<"d","e","b","u","g">>
Web == <<"w","e","b">>
Ssh == <<"s","s","h">>
RiskHeader == <<"R","i","s","k">>
NameHeader == <<"N","a","m","e">>

\* a row whose cells left of column firstCol are empty: columns A to C hold
\* id, column D holds risk, columns E to O hold rest
Row(firstCol, id, risk, rest) ==
    [c \in Cols |->
        IF c < firstCol THEN Empty
        ELSE IF c < RISK_COLUMN THEN id
        ELSE IF c = RISK_COLUMN THEN risk
        ELSE rest]

RowId(i) == <<"n", Lower[i]>>

Sheet(firstCol, rows, customHeights, filterRange) ==
    [cells |-> <<Row(firstCol, <<"I", "D">>, RiskHeader, NameHeader)>> \o
               [i \in 1..Len(rows) |-> Row(firstCol, RowId(i), rows[i][1], rows[i][2])],
     rowHeight |-> [r \in 1..(Len(rows) + 1) |-> IF customHeights THEN 13 + r ELSE 15],
     rowHidden |-> [r \in 1..(Len(rows) + 1) |-> FALSE],
     colHidden |-> {},
     filterRange |-> filterRange,
     filterCrit |-> NoCriteria,
     autofitted |-> {}]

SeqsUpTo(S, n) == UNION {[1..k -> S] : k \in 0..n}

\* <<value of column D, value of columns E to O>>
MainRowInputs == {<<Critical, Web>>, <<Critical, Ssh>>, <<Info, Web>>, <<Debug, Web>>}
OpsRowInputs == {<<Critical, Web>>, <<Info, Critical>>, <<Debug, Web>>,
                 <<RiskHeader, NameHeader>>}

NameInputs == {<<"s","c","a","n",".","x","l","s","x">>,
               <<"s","c","a","n",".","c","s","v">>,
               <<"s","c","a","n",".","X","L","S","X">>,
               <<"s","c","a","n",".","x","l","s","x",".","b","a","k">>,
               <<"x","l","s","x">>}

OffsetInputs == {0, 1, 3, 4}
FilterInputs == {NoRange, <<3, 14>>, <<4, 14>>, <<0, 2>>}
ColumnIndexInputs == {-2, -1, 0, 3, 4, 14}
ConsideredInputs == {<<>>, <<3>>, <<4>>, <<3, 4>>, <<0, 3>>,
                     DUPLICATES_CONSIDERED_COLUMNS}
HeightInputs == {-1, 0, 1, UNIFIED_ROW_HEIGHT}
ValuesInputs == {RISK_LEVELS_TOBE_SHOWN, <<Critical>>, <<>>}
AddressInputs == {COLUMNS_TOBE_HIDDEN, COLUMNS_TOBE_FILTERED, <<"G", ":", "G">>}
AutofitInputs == {COLUMNS_TOBE_AUTOFITTED, <<"C">>, <<>>}
InsertBeforeInputs == {"A", "F", "P"}
Device == <<"D","e","v","i","c","e">>
Scan == <<"s","c","a","n">>

----------------------------------------------------------------------------
(* A function call: the worksheet it is given is remembered in before, the *)
(* call in call; a thrown error ends the run.                              *)

Invoke(fn, args, o, next) ==
    /\ before' = ws
    /\ call' = [fn |-> fn, args |-> args]
    /\ ws' = o.ws
    /\ err' = o.err
    /\ hostLog' = hostLog \o o.calls
    /\ pc' = IF o.err = "none" THEN next ELSE "failed"

NoCall == [fn |-> "none", args |-> <<>>]

----------------------------------------------------------------------------
(* main *)

Init ==
    /\ name \in NameInputs
    /\ \E hasIds \in BOOLEAN, rows \in SeqsUpTo(MainRowInputs, MaxRows),
          customHeights \in BOOLEAN :
          input = Sheet(IF hasIds THEN 0 ELSE RISK_COLUMN, rows, customHeights, NoRange)
    /\ ws = input
    /\ pc = "main"
    /\ err = "none"
    /\ hostLog = <<>>
    /\ array = <<>>
    /\ before = input
    /\ call = NoCall

MainValidate ==
    /\ pc = "main"
    /\ IF ~EndsWith(name, DotXlsx)
       THEN pc' = "failed" /\ err' = "Error"
       ELSE pc' = "hideColumns" /\ err' = err
    /\ UNCHANGED <<name, input, ws, hostLog, array, before, call>>

MainHideColumns ==
    /\ pc = "hideColumns"
    /\ Invoke("hideColumns", <<COLUMNS_TOBE_HIDDEN>>,
              hideColumns(ws, COLUMNS_TOBE_HIDDEN), "filterColumns")
    /\ UNCHANGED <<name, input, array>>

MainFilterColumns ==
    /\ pc = "filterColumns"
    /\ Invoke("filterColumns", <<COLUMNS_TOBE_FILTERED>>,
              filterColumns(ws, COLUMNS_TOBE_FILTERED), "sort")
    /\ UNCHANGED <<name, input, array>>

MainSort ==
    /\ pc = "sort"
    /\ Invoke("sort", <<RISK_COLUMN>>, sort(ws, RISK_COLUMN), "removeDuplicates")
    /\ UNCHANGED <<name, input, array>>

MainRemoveDuplicates ==
    /\ pc = "removeDuplicates"
    /\ LET o == removeDuplicates(ws, DUPLICATES_CONSIDERED_COLUMNS) IN
         /\ Invoke("removeDuplicates", <<DUPLICATES_CONSIDERED_COLUMNS>>, o, "setRowHeight")
         /\ array' = o.array
    /\ UNCHANGED <<name, input>>

MainSetRowHeight ==
    /\ pc = "setRowHeight"
    /\ Invoke("setRowHeight", <<UNIFIED_ROW_HEIGHT>>,
              setRowHeight(ws, UNIFIED_ROW_HEIGHT), "onlyShowFiltered")
    /\ UNCHANGED <<name, input, array>>

MainOnlyShowFiltered ==
    /\ pc = "onlyShowFiltered"
    /\ Invoke("onlyShowFiltered", <<RISK_COLUMN, RISK_LEVELS_TOBE_SHOWN>>,
              onlyShowFiltered(ws, RISK_COLUMN, RISK_LEVELS_TOBE_SHOWN), "autofitColumns")
    /\ UNCHANGED <<name, input, array>>

MainAutofitColumns ==
    /\ pc = "autofitColumns"
    /\ Invoke("autofitColumns", <<COLUMNS_TOBE_AUTOFITTED>>,
              autofitColumns(ws, COLUMNS_TOBE_AUTOFITTED), "done")
    /\ UNCHANGED <<name, input, array>>

Next ==
    \/ MainValidate
    \/ MainHideColumns
    \/ MainFilterColumns
    \/ MainSort
    \/ MainRemoveDuplicates
    \/ MainSetRowHeight
    \/ MainOnlyShowFiltered
    \/ MainAutofitColumns

Spec == Init /\ [][Next]_vars

----------------------------------------------------------------------------
(* One call of one function on any worksheet *)

OpsInit ==
    /\ name = <<"s","c","a","n",".","x","l","s","x">>
    /\ \E firstCol \in OffsetInputs, rows \in SeqsUpTo(OpsRowInputs, MaxOpRows),
          customHeights \in BOOLEAN, filterRange \in FilterInputs :
          input = Sheet(firstCol, rows, customHeights, filterRange)
    /\ ws = input
    /\ pc = "ready"
    /\ err = "none"
    /\ hostLog = <<>>
    /\ array = <<>>
    /\ before = input
    /\ call = NoCall

CallHideColumns ==
    /\ pc = "ready"
    /\ \E address \in AddressInputs :
          Invoke("hideColumns", <<address>>, hideColumns(ws, address), "returned")
    /\ UNCHANGED <<name, input, array>>

CallFilterColumns ==
    /\ pc = "ready"
    /\ \E address \in AddressInputs :
          Invoke("filterColumns", <<address>>, filterColumns(ws, address), "returned")
    /\ UNCHANGED <<name, input, array>>

CallSort ==
    /\ pc = "ready"
    /\ \E columnIndex \in ColumnIndexInputs :
          Invoke("sort", <<columnIndex>>, sort(ws, columnIndex), "returned")
    /\ UNCHANGED <<name, input, array>>

CallOnlyShowFiltered ==
    /\ pc = "ready"
    /\ \E columnIndex \in ColumnIndexInputs, values \in ValuesInputs :
          Invoke("onlyShowFiltered", <<columnIndex, values>>,
                 onlyShowFiltered(ws, columnIndex, values), "returned")
    /\ UNCHANGED <<name, input, array>>

CallRemoveDuplicates ==
    /\ pc = "ready"
    /\ \E columns \in ConsideredInputs :
          LET o == removeDuplicates(ws, columns) IN
            /\ Invoke("removeDuplicates", <<columns>>, o, "returned")
            /\ array' = o.array
    /\ UNCHANGED <<name, input>>

CallSetRowHeight ==
    /\ pc = "ready"
    /\ \E rowHeight \in HeightInputs :
          Invoke("setRowHeight", <<rowHeight>>, setRowHeight(ws, rowHeight), "returned")
    /\ UNCHANGED <<name, input, array>>

CallAutofitColumns ==
    /\ pc = "ready"
    /\ \E columns \in AutofitInputs :
          Invoke("autofitColumns", <<columns>>, autofitColumns(ws, columns), "returned")
    /\ UNCHANGED <<name, input, array>>

CallInsertColumn ==
    /\ pc = "ready"
    /\ \E column \in InsertBeforeInputs :
          Invoke("insertColumn", <<column, Device, Scan>>,
                 insertColumn(ws, column, Device, Scan), "returned")
    /\ UNCHANGED <<name, input, array>>

OpsNext ==
    \/ CallHideColumns
    \/ CallFilterColumns
    \/ CallSort
    \/ CallOnlyShowFiltered
    \/ CallRemoveDuplicates
    \/ CallSetRowHeight
    \/ CallAutofitColumns
    \/ CallInsertColumn

OpsSpec == OpsInit /\ [][OpsNext]_vars

----------------------------------------------------------------------------
(* Properties *)

\* the name ends with ".xlsx", spelled out character by character
HasXlsxSuffix ==
    /\ Len(name) >= 5
    /\ name[Len(name) - 4] = "."
    /\ name[Len(name) - 3] = "x"
    /\ name[Len(name) - 2] = "l"
    /\ name[Len(name) - 1] = "s"
    /\ name[Len(name)] = "x"

Count(seq, x) == Cardinality({i \in 1..Len(seq) : seq[i] = x})

\* C1: when the workbook name does not end with ".xlsx", main throws an
\* Error before any host call is made and the worksheet stays as supplied.
C1_RejectsOtherNames ==
    (~HasXlsxSuffix /\ pc # "main") =>
        /\ pc = "failed"
        /\ err = "Error"
        /\ hostLog = <<>>
        /\ ws = input

C1_Witness ==
    /\ ~HasXlsxSuffix
    /\ pc = "failed"
    /\ Len(name) >= 5
    /\ RowCount(input) >= 3

\* the considered columns of the latest removeDuplicates call, as passed
SameOnConsidered(w, i, j) ==
    \A k \in 1..Len(call.args[1]) :
        w.cells[i][call.args[1][k]] = w.cells[j][call.args[1][k]]

FirstOccurrences(w) ==
    {1} \cup {r \in DataRows(w) : \A j \in DataRows(w) : j < r => ~SameOnConsidered(w, j, r)}

\* what is left after the latest removeDuplicates call: the header row is
\* still the first row, of the data rows that agree on every considered
\* column exactly the first occurrence is left, in the original order
OnlyFirstOccurrencesLeft ==
    /\ ws.cells[1] = before.cells[1]
    /\ RowCount(ws) = Cardinality(FirstOccurrences(before))
    /\ \E f \in [1..RowCount(ws) -> FirstOccurrences(before)] :
          /\ \A a, b \in 1..RowCount(ws) : a < b => f[a] < f[b]
          /\ \A a \in 1..RowCount(ws) : ws.cells[a] = before.cells[f[a]]

\* C2 as claimed: after removeDuplicates with a list of considered columns
\* on any used range, only the first occurrences are left (header kept,
\* order kept).
C2_AnyUsedRange ==
    (call.fn = "removeDuplicates" /\ pc # "ready" /\ call.args[1] # <<>>) =>
        OnlyFirstOccurrencesLeft

\* C2 as amended: when the list is not empty and every considered column
\* is a column of the used range, removeDuplicates returns and only the
\* first occurrences are left (header kept, order kept).
C2_RemoveDuplicatesKeepsFirst ==
    (/\ call.fn = "removeDuplicates"
     /\ pc # "ready"
     /\ call.args[1] # <<>>
     /\ \A k \in 1..Len(call.args[1]) :
           call.args[1][k] \in UsedColumnIndex(before)..UsedLastColumn(before)) =>
        /\ err = "none"
        /\ OnlyFirstOccurrencesLeft

C2_Witness ==
    /\ call.fn = "removeDuplicates"
    /\ pc = "returned"
    /\ Len(call.args[1]) = 1
    /\ UsedColumnIndex(before) = 1
    /\ RowCount(before) = 3
    /\ RowCount(ws) = 2
    /\ before.cells[2] # before.cells[3]

\* column columnIndex of the latest sort call is in order below the header
\* row, compared ignoring case, and the header row is where it was
SortColumnInOrder ==
    /\ ws.cells[1] = before.cells[1]
    /\ RowCount(ws) = RowCount(before)
    /\ \A r \in DataRows(ws) :
          r < RowCount(ws) =>
              ~LessIgnoreCase(ws.cells[r + 1][call.args[1]], ws.cells[r][call.args[1]])

\* C3 as claimed: on a worksheet with an autofilter, after sort(columnIndex)
\* with any columnIndex >= 0 the column is in order below the header row.
C3_AnyNonNegativeIndex ==
    (/\ call.fn = "sort"
     /\ pc # "ready"
     /\ before.filterRange # NoRange
     /\ call.args[1] >= 0) => SortColumnInOrder

\* C3 as amended: when the worksheet has an autofilter and columnIndex is a
\* column of its range, sort returns and the column is in order below the
\* header row, compared ignoring case, with the header row where it was.
C3_SortedIgnoringCase ==
    (/\ call.fn = "sort"
     /\ pc # "ready"
     /\ before.filterRange # NoRange
     /\ call.args[1] \in ColumnsOf(before.filterRange)) =>
        /\ err = "none"
        /\ SortColumnInOrder

C3_Witness ==
    /\ call.fn = "sort"
    /\ pc = "returned"
    /\ call.args[1] = 3
    /\ before.filterRange = <<3, 14>>
    /\ RowCount(before) = 3
    /\ LessIgnoreCase(before.cells[3][3], before.cells[2][3])
    /\ StrLess(before.cells[2][3], before.cells[3][3])
    /\ ws.cells[2] = before.cells[3]

\* C4: after onlyShowFiltered(columnIndex, valuesTobeShown) a data row is
\* visible exactly when its value in column columnIndex is one of
\* valuesTobeShown, and no row is deleted.
C4_FiltersDesignatedColumn ==
    (call.fn = "onlyShowFiltered" /\ pc \in {"returned", "autofitColumns"}) =>
        /\ ws.cells = before.cells
        /\ \A r \in DataRows(ws) :
              ~ws.rowHidden[r] <=>
                  /\ call.args[1] \in Cols
                  /\ ws.cells[r][call.args[1]] \in Elems(call.args[2])

\* C5: setRowHeight(rowHeight) with rowHeight > 0 leaves every row of the
\* used range with that height; with rowHeight <= 0 it throws a RangeError
\* and every height is what it was.
C5_RowHeight ==
    call.fn = "setRowHeight" =>
        IF call.args[1] > 0
        THEN /\ pc \in {"returned", "onlyShowFiltered"}
             /\ Len(ws.rowHeight) = RowCount(ws)
             /\ \A r \in 1..RowCount(ws) : ws.rowHeight[r] = call.args[1]
        ELSE /\ pc = "failed"
             /\ err = "RangeError"
             /\ ws = before

C5_Witness ==
    /\ call.fn = "setRowHeight"
    /\ call.args[1] = UNIFIED_ROW_HEIGHT
    /\ pc = "returned"
    /\ RowCount(before) = 3
    /\ before.rowHeight[2] # before.rowHeight[3]
    /\ before.rowHeight[1] = UNIFIED_ROW_HEIGHT

C5_WitnessThrows ==
    /\ call.fn = "setRowHeight"
    /\ call.args[1] = 0
    /\ pc = "failed"
    /\ RowCount(before) = 3

\* C6: sort(columnIndex) with columnIndex < 0 throws a RangeError, makes no
\* host call and leaves the worksheet (cells, order, autofilter) as it was.
C6_NegativeSortIndex ==
    (call.fn = "sort" /\ call.args[1] < 0) =>
        /\ pc = "failed"
        /\ err = "RangeError"
        /\ ws = before
        /\ \A k \in 1..Len(hostLog) : hostLog[k].op # "sort.apply"

C6_Witness ==
    /\ call.fn = "sort"
    /\ call.args[1] = -1
    /\ pc = "failed"
    /\ before.filterRange = <<3, 14>>
    /\ RowCount(before) = 3
    /\ StrLess(before.cells[3][3], before.cells[2][3])

\* the record a row holds in columns D to O
RecordOf(row) == [c \in ColumnsOf(GetRange(COLUMNS_TOBE_FILTERED)) |-> row[c]]

\* header plus a pair of data rows equal on columns D to O, a row with
\* "Info" and a row with "Critical" in column D
Scenario(w) ==
    \E i, j, k, l \in DataRows(w) :
        /\ Cardinality({i, j, k, l}) = 4
        /\ RecordOf(w.cells[i]) = RecordOf(w.cells[j])
        /\ w.cells[k][RISK_COLUMN] = Info
        /\ w.cells[l][RISK_COLUMN] = Critical

\* C7: when main has completed on such a worksheet, columns A to C are
\* hidden, every record of columns D to O that was in the sheet is in it
\* exactly once (one row of the duplicate pair is left, the "Info" row is
\* still present), rows with "Info" are hidden and rows with "Critical"
\* visible, every row has height 14 and columns E, F, I, J, M are autofitted.
C7_EndToEnd ==
    (pc = "done" /\ HasXlsxSuffix /\ Scenario(input)) =>
        /\ {0, 1, 2} \subseteq ws.colHidden
        /\ \A r \in DataRows(input) :
              Cardinality({q \in DataRows(ws) :
                  RecordOf(ws.cells[q]) = RecordOf(input.cells[r])}) = 1
        /\ \A q \in DataRows(ws) :
              /\ ws.cells[q][3] = Info => ws.rowHidden[q]
              /\ ws.cells[q][3] = Critical => ~ws.rowHidden[q]
        /\ \E q \in DataRows(ws) : ws.cells[q][3] = Info
        /\ \E q \in DataRows(ws) : ws.cells[q][3] = Critical
        /\ Len(ws.rowHeight) = RowCount(ws)
        /\ \A q \in 1..RowCount(ws) : ws.rowHeight[q] = 14
        /\ {4, 5, 8, 9, 12} \subseteq ws.autofitted

C7_Witness ==
    /\ pc = "done"
    /\ Scenario(input)
    /\ UsedColumnIndex(input) = 0
    /\ RowCount(ws) = RowCount(input) - 1
    /\ input.rowHeight[2] # 14

\* the host calls main has made when it is at a control position
CallsMadeAt(at) ==
    CASE at \in {"main", "hideColumns"} -> 0
      [] at = "filterColumns" -> 1
      [] at = "sort" -> 2
      [] at = "removeDuplicates" -> 3
      [] at = "setRowHeight" -> 4
      [] at = "onlyShowFiltered" -> 5
      [] at = "autofitColumns" -> 6
      [] at = "done" -> 11
      [] OTHER -> -1

\* the k-th host call of a run of main
IsExpectedCall(k, c) ==
    CASE k = 1 -> c.op = "setColumnHidden" /\ c.arg = <<(<<0, 2>>)>>
      [] k = 2 -> c.op = "autoFilter.apply" /\ c.arg = <<(<<3, 14>>)>>
      [] k = 3 -> c.op = "sort.apply" /\ c.arg = <<0>>
      [] k = 4 -> /\ c.op = "removeDuplicates"
                  /\ Len(c.arg[1]) = 12
                  /\ \A i \in 1..12 : c.arg[1][i] + UsedColumnIndex(input) = 2 + i
      [] k = 5 -> c.op = "setRowHeight" /\ c.arg = <<14>>
      [] k = 6 -> /\ c.op = "autoFilter.apply"
                  /\ Len(c.arg) = 3
                  /\ c.arg = <<(<<3, 14>>), 0, <<Critical, High, Low, Medium>> >>
      [] k = 7 -> c.op = "autofitColumns" /\ c.arg = <<(<<4, 4>>)>>
      [] k = 8 -> c.op = "autofitColumns" /\ c.arg = <<(<<5, 5>>)>>
      [] k = 9 -> c.op = "autofitColumns" /\ c.arg = <<(<<8, 8>>)>>
      [] k = 10 -> c.op = "autofitColumns" /\ c.arg = <<(<<9, 9>>)>>
      [] k = 11 -> c.op = "autofitColumns" /\ c.arg = <<(<<12, 12>>)>>
      [] OTHER -> FALSE

\* the control positions at which main has a statement to execute next
MainSteps == {"main", "hideColumns", "filterColumns", "sort", "removeDuplicates",
              "setRowHeight", "onlyShowFiltered", "autofitColumns"}

\* C8: in a run of main on a workbook named *.xlsx the host calls are, in
\* this order and once each: hide A:C, autofilter D:O, sort by column D,
\* remove duplicates on D to O, row height 14, filter on the allow-list,
\* autofit E, F, I, J, M; at every control position exactly the calls of
\* the earlier steps have been made, no error is thrown, and the run is
\* either at its end or at a statement it executes next.
C8_FixedOrder ==
    (HasXlsxSuffix /\ pc # "main") =>
        /\ err = "none"
        /\ pc # "failed"
        /\ Len(hostLog) = CallsMadeAt(pc)
        /\ \A k \in 1..Len(hostLog) : IsExpectedCall(k, hostLog[k])
        /\ pc = "done" \/ pc \in MainSteps

\* the same with the last conjunct as enabledness of the next step
C8_NextStepEnabled ==
    (HasXlsxSuffix /\ pc # "done") => ENABLED Next

C8_Witness ==
    /\ HasXlsxSuffix
    /\ pc = "done"
    /\ Len(hostLog) = 11
    /\ RowCount(input) = 4
    /\ UsedColumnIndex(input) = 3

\* C9: removeDuplicates hands the host the list whose i-th element is the
\* i-th index passed minus the column offset of the used range, and the
\* caller's array holds that list after the call.
C9_TranslatesInPlace ==
    call.fn = "removeDuplicates" =>
        /\ Len(array) = Len(call.args[1])
        /\ \A i \in 1..Len(array) :
              array[i] = call.args[1][i] - UsedColumnIndex(before)
        /\ Len(hostLog) >= 1
        /\ hostLog[Len(hostLog)].op = "removeDuplicates"
        /\ hostLog[Len(hostLog)].arg = <<array>>

C9_Witness ==
    /\ call.fn = "removeDuplicates"
    /\ UsedColumnIndex(before) = 3
    /\ call.args[1] = <<3, 4>>
    /\ array = <<0, 1>>
    /\ pc = "returned"

\* C10: the sort step of main only reorders whole worksheet rows: every
\* complete row (columns A to O) is in the sheet as often after sort as before.
C10_SortKeepsRowsIntact ==
    (call.fn = "sort" /\ pc = "removeDuplicates") =>
        \A r \in 1..RowCount(before) :
            Count(ws.cells, before.cells[r]) = Count(before.cells, before.cells[r])

====
